---- MODULE Spec2Model ----
(***************************************************************************)
(* Booner_Ollama API server (src/api_server.py): the task table            *)
(* active_tasks, the submission handlers that fill it, the background      *)
(* function run_task that drives one task to a terminal status, and the    *)
(* status lookup.  The drivers run_task calls (src/agents, src/models) are *)
(* modelled by what they return or raise.                                  *)
(*                                                                         *)
(* All handlers and run_task are coroutines of one asyncio event loop.     *)
(* run_task never reaches an await (the awaited calls on lines 197-202     *)
(* raise before they yield), so from its first write to its last nothing   *)
(* else runs: the variable loop holds the task whose run occupies the      *)
(* event loop, and every handler waits for loop = 0.                       *)
(***************************************************************************)
EXTENDS Integers, Sequences, FiniteSets, TLC

\* ---------------------------------------------------------------- bounds
\* Number of submissions accepted in one behaviour.
MaxTasks == 2

\* ---------------------------------------------------------------- values
\* Python's None, also the value of a key a dict does not have (dict.get).
None == [none |-> TRUE]

\* A Python str held in a task record or an exception.
Str(s) == [str |-> s]

\* The X-API-Key header is absent (Header(None)).
NoHeader == "<no header>"

\* Values Config.MCP_API_KEY takes: the default "" and a configured key.
ApiKeys == {"", "secret"}

\* Values of the X-API-Key header a client sends.
Headers == {NoHeader, "", "secret"}

\* Inputs of the request bodies.
GameTypes == {"minecraft", "CS2", "valheim", "rust"}

ServerNames == {"test1"}

Ports == {65535, 70000}

SettingsValues == {None, [password |-> "pw"]}

Actions == {"start", "stop", "restart", "status", "pause"}

\* Exceptions the Ollama chain raises: a timeout and a missing model.
LLMErrors == {"TransientError", "PermanentError"}

TaskIds == 1..MaxTasks

\* ------------------------------------------------------- request kwargs
\* **request.dict() as run_task receives it, one shape for all task types.
Kwargs(tt, gt, sn, p, st, a) ==
    [task_type |-> tt, game_type |-> gt, server_name |-> sn, port |-> p,
     additional_settings |-> st, action |-> a]

LLMGenerateRequest == {Kwargs("llm_generate", "-", "-", 0, None, "-")}

GameServerDeployRequest ==
    {Kwargs("game_server_deploy", gt, sn, p, st, "-") :
        gt \in GameTypes, sn \in ServerNames, p \in Ports, st \in SettingsValues}

GameServerActionRequest ==
    {Kwargs("game_server_action", "minecraft", sn, 0, None, a) :
        sn \in ServerNames, a \in Actions}

InfrastructureActionRequest ==
    {Kwargs("infrastructure_action", "-", "-", 0, None, "create")}

\* ------------------------------------------------------------- drivers
\* What a call made by run_task produced: a returned value or an exception.
\* calls is the number of driver calls run_task made to get there.
Return(r, n) == [kind |-> "return", value |-> r, exc |-> "-", msg |-> None, calls |-> n]

Raise(e, m, n) == [kind |-> "raise", value |-> None, exc |-> e, msg |-> Str(m), calls |-> n]

\* An exception whose message is an f-string of a text and a value.
RaiseNaming(e, m, v, n) ==
    [kind |-> "raise", value |-> None, exc |-> e, msg |-> [str |-> m, names |-> v], calls |-> n]

NoOutcome == [kind |-> "-", value |-> None, exc |-> "-", msg |-> None, calls |-> 0]

\* str.lower() on the game types of GameTypes.
Lower(s) == IF s = "CS2" THEN "cs2" ELSE s

\* Connection info that names the container's port, not the requested one.
DeployResult_ContainerPort(prefix, config, hostPorts) ==
    [status |-> "success",
     server_id |-> <<prefix, config.server_name>>,
     connection_info |-> 25565,
     ports |-> hostPorts]

\* The dict the deploy_*_server methods return.
DeployResult(prefix, config, hostPorts) ==
    [status |-> "success",
     server_id |-> <<prefix, config.server_name>>,
     connection_info |-> config.port,
     ports |-> hostPorts]

deploy_minecraft_server(config) ==
    Return(DeployResult("minecraft", config, {config.port}), 1)

deploy_cs2_server(config) ==
    IF config.additional_settings = None
    THEN Raise("AttributeError", "'NoneType' object has no attribute 'get'", 1)
    ELSE Return(DeployResult("cs2", config, {config.port, config.port + 1}), 1)

deploy_valheim_server(config) ==
    IF config.additional_settings = None
    THEN Raise("AttributeError", "'NoneType' object has no attribute 'get'", 1)
    ELSE Return(DeployResult("valheim", config,
                             {config.port, config.port + 1, config.port + 2}), 1)

deploy_game_server(config) ==
    IF Lower(config.game_type) = "minecraft" THEN deploy_minecraft_server(config)
    ELSE IF Lower(config.game_type) = "cs2" THEN deploy_cs2_server(config)
    ELSE IF Lower(config.game_type) = "valheim" THEN deploy_valheim_server(config)
    ELSE Return([status |-> "error",
                 message |-> <<"Unsupported game type", config.game_type>>], 1)

\* chain.invoke: the answer of the Ollama server, or the exception ext.
llm_invoke(ext) ==
    IF ext = "ok" THEN Return([response |-> "text"], 1)
    ELSE Raise(ext, "ollama call failed", 1)

execute_opnsense_action(kw) ==
    Return([status |-> "success", message |-> <<"Action completed", kw.action>>], 1)

\* A restart that goes on to the deploy call when the stop step failed.
game_server_action_branch_StartAfterFailedStop(kw) ==
    IF kw.action \in {"start", "restart"}
    THEN Raise("TypeError", "deploy_game_server() takes 2 positional arguments but 4 were given", 1)
    ELSE IF kw.action = "stop"
    THEN Raise("AttributeError", "'GameServerAgent' object has no attribute 'stop_game_server'", 0)
    ELSE IF kw.action = "status"
    THEN Return([status |-> "unknown", message |-> "Status check not implemented yet"], 0)
    ELSE RaiseNaming("ValueError", "Unknown action", kw.action, 0)

\* A branch whose else clause answers like "status" instead of raising.
game_server_action_branch_UnknownActionAnswered(kw) ==
    IF kw.action = "start"
    THEN Raise("TypeError", "deploy_game_server() takes 2 positional arguments but 4 were given", 1)
    ELSE IF kw.action \in {"stop", "restart"}
    THEN Raise("AttributeError", "'GameServerAgent' object has no attribute 'stop_game_server'", 0)
    ELSE Return([status |-> "unknown", message |-> "Status check not implemented yet"], 0)

\* The game_server_action branch: deploy_game_server is called with three
\* arguments (TypeError), GameServerAgent has no stop_game_server
\* (AttributeError before any call is made).
game_server_action_branch(kw) ==
    IF kw.action = "start"
    THEN Raise("TypeError", "deploy_game_server() takes 2 positional arguments but 4 were given", 1)
    ELSE IF kw.action \in {"stop", "restart"}
    THEN Raise("AttributeError", "'GameServerAgent' object has no attribute 'stop_game_server'", 0)
    ELSE IF kw.action = "status"
    THEN Return([status |-> "unknown", message |-> "Status check not implemented yet"], 0)
    ELSE RaiseNaming("ValueError", "Unknown action", kw.action, 0)

\* The body of run_task's try block up to the write of the terminal status.
Dispatch(kw, ext) ==
    IF kw.task_type = "llm_generate" THEN llm_invoke(ext)
    ELSE IF kw.task_type = "game_server_deploy" THEN deploy_game_server(kw)
    ELSE IF kw.task_type = "game_server_action" THEN game_server_action_branch(kw)
    ELSE IF kw.task_type = "infrastructure_action" THEN execute_opnsense_action(kw)
    ELSE RaiseNaming("ValueError", "Unknown task type", kw.task_type, 0)

\* The outcomes of the external call of a task: only the LLM call has any.
ExternalOutcomes(kw) ==
    IF kw.task_type = "llm_generate" THEN {"ok"} \cup LLMErrors ELSE {"ok"}

\* ----------------------------------------------------------- the state
VARIABLES
    MCP_API_KEY,   \* Config.MCP_API_KEY, read once at start
    active_tasks,  \* task id -> [status, result, error]
    nextId,        \* number of task ids uuid4 has produced, plus one
    kwargs,        \* task id -> the keyword arguments of its run_task
    bg,            \* task id -> the jobs left in the request's BackgroundTasks
    pc,            \* task id -> where its run_task is
    local,         \* task id -> what the call of its run_task produced
    attempt,       \* task id -> driver calls made for it
    runs,          \* task id -> runs of run_task started for it
    loop,          \* the task whose run_task occupies the event loop, or 0
    issued,        \* the task ids returned by submissions, in order
    notified,      \* task id -> how the notify_mcp job of its request ended
    prior,         \* task id -> the tasks already completed when it was submitted
    reply          \* the last HTTP response

vars == <<MCP_API_KEY, active_tasks, nextId, kwargs, bg, pc, local, attempt,
          runs, loop, issued, notified, prior, reply>>

tables == <<active_tasks, nextId, kwargs, bg, pc, local, attempt, runs, issued,
            notified, prior>>

Reply(op, code, id, status, result, error) ==
    [op |-> op, code |-> code, task_id |-> id, status |-> status,
     result |-> result, error |-> error]

NoReply == Reply("-", 0, 0, "-", None, None)

\* validate_api_key: TRUE when the request is let through.
validate_api_key(x_api_key) ==
    ~ (MCP_API_KEY = "" \/ x_api_key # MCP_API_KEY)

\* d[k] = v on a Python dict: adds the key or overwrites its value.
Put(d, k, v) == [x \in DOMAIN d \cup {k} |-> IF x = k THEN v ELSE d[x]]

\* uuid4 returning an id it has returned before.
NewTaskId_Reused(n) == 1

\* str(uuid.uuid4()): the n-th id drawn is an id not drawn before.
NewTaskId(n) == n

\* A handler that adds run_task twice.
BackgroundJobs_RunTwice == <<"run_task", "run_task", "notify_mcp">>

\* A handler that adds the notification before the run.
BackgroundJobs_NotifyFirst == <<"notify_mcp", "run_task">>

\* The jobs a submission handler adds to its BackgroundTasks, in order.
BackgroundJobs == <<"run_task", "notify_mcp">>

\* The notify_mcp job of a request has not run.
NotNotified == [kind |-> "-", success |-> FALSE]

\* {"status": "queued"}
QueuedRecord == [status |-> "queued", result |-> None, error |-> None]

Init ==
    /\ MCP_API_KEY \in ApiKeys
    /\ active_tasks = <<>>
    /\ nextId = 1
    /\ kwargs = <<>>
    /\ bg = <<>>
    /\ pc = <<>>
    /\ local = <<>>
    /\ attempt = <<>>
    /\ runs = <<>>
    /\ loop = 0
    /\ issued = <<>>
    /\ notified = <<>>
    /\ prior = <<>>
    /\ reply = NoReply

\* ------------------------------------------------- submission handlers
\* The common body of the four submission handlers: draw an id, store the
\* queued record, add the two background jobs, answer with the id.
CreateTask(op, kw) ==
    LET task_id == NewTaskId(nextId) IN
    /\ nextId <= MaxTasks
    /\ nextId' = nextId + 1
    /\ active_tasks' = Put(active_tasks, task_id, QueuedRecord)
    /\ kwargs' = Put(kwargs, task_id, kw)
    /\ bg' = Put(bg, task_id, BackgroundJobs)
    /\ pc' = Put(pc, task_id, "scheduled")
    /\ local' = Put(local, task_id, NoOutcome)
    /\ attempt' = Put(attempt, task_id, 0)
    /\ runs' = Put(runs, task_id, 0)
    /\ issued' = Append(issued, task_id)
    /\ notified' = Put(notified, task_id, NotNotified)
    /\ prior' = Put(prior, task_id,
                    {t \in DOMAIN active_tasks : active_tasks[t].status = "completed"})
    /\ reply' = Reply(op, 200, task_id, "queued", None, None)
    /\ UNCHANGED <<MCP_API_KEY, loop>>

\* HTTPException(status_code=401, detail="Invalid API key")
InvalidApiKey == Reply("-", 401, 0, "-", None, None)

\* A handler body that runs although the dependency raised 401.
Unauthorized_StoresRecord ==
    /\ reply' = InvalidApiKey
    /\ active_tasks' = Put(active_tasks, NewTaskId(nextId), QueuedRecord)
    /\ UNCHANGED <<MCP_API_KEY, loop, nextId, kwargs, bg, pc, local, attempt, runs,
                   issued, notified, prior>>

Unauthorized ==
    /\ reply' = InvalidApiKey
    /\ UNCHANGED <<MCP_API_KEY, loop, tables>>

\* A submission endpoint: the dependency validate_api_key, then the handler
\* body on a request body of the endpoint's model.
Handler(op, requests) ==
    /\ loop = 0
    /\ \E x_api_key \in Headers :
          IF validate_api_key(x_api_key)
          THEN \E kw \in requests : CreateTask(op, kw)
          ELSE Unauthorized

llm_generate == Handler("llm_generate", LLMGenerateRequest)

deploy_game_server_endpoint == Handler("game_deploy", GameServerDeployRequest)

game_server_action == Handler("game_action", GameServerActionRequest)

infrastructure_action == Handler("infrastructure_action", InfrastructureActionRequest)

\* ------------------------------------------------------------ run_task
\* The record writes of run_task.
Running(task) == [task EXCEPT !.status = "running"]

\* "completed" written, the result left out.
Completed_NoResult(task, result) == [task EXCEPT !.status = "completed"]

Completed(task, result) == [task EXCEPT !.status = "completed", !.result = result]

\* An except clause that puts the task back in the queue.
Failed_Requeued(task, e) == [task EXCEPT !.status = "queued", !.error = e]

\* An except clause that records the error and leaves the status alone.
Failed_StatusKept(task, e) == [task EXCEPT !.error = e]

Failed(task, e) == [task EXCEPT !.status = "failed", !.error = e]

\* A try block that calls the driver again after it raised, three times in all.
Invocations_Retried(outcome) == IF outcome.kind = "raise" THEN 3 ELSE outcome.calls

\* Driver calls made by one pass through the try block.
Invocations(outcome) == outcome.calls

\* A run_task that gives the event loop away after writing "running".
RunBegin_Yields(t) ==
    /\ loop = 0
    /\ t \in DOMAIN bg
    /\ bg[t] # <<>> /\ Head(bg[t]) = "run_task"
    /\ pc[t] = "scheduled"
    /\ loop' = 0
    /\ active_tasks' = [active_tasks EXCEPT ![t] = Running(@)]
    /\ pc' = [pc EXCEPT ![t] = "dispatch"]
    /\ runs' = [runs EXCEPT ![t] = @ + 1]
    /\ UNCHANGED <<MCP_API_KEY, nextId, kwargs, bg, local, attempt, issued,
                   notified, prior, reply>>

\* Line 146: the background job starts and writes "running".
RunBegin(t) ==
    /\ loop = 0
    /\ t \in DOMAIN bg
    /\ bg[t] # <<>> /\ Head(bg[t]) = "run_task"
    /\ loop' = t
    /\ active_tasks' = [active_tasks EXCEPT ![t] = Running(@)]
    /\ pc' = [pc EXCEPT ![t] = "dispatch"]
    /\ runs' = [runs EXCEPT ![t] = @ + 1]
    /\ UNCHANGED <<MCP_API_KEY, nextId, kwargs, bg, local, attempt, issued,
                   notified, prior, reply>>

\* Lines 148-227: the branch of the task type runs its call.
RunInvoke(t) ==
    /\ loop = t
    /\ pc[t] = "dispatch"
    /\ \E ext \in ExternalOutcomes(kwargs[t]) :
          LET outcome == Dispatch(kwargs[t], ext) IN
          /\ local' = [local EXCEPT ![t] = outcome]
          /\ attempt' = [attempt EXCEPT ![t] = @ + Invocations(outcome)]
          /\ pc' = [pc EXCEPT ![t] = IF outcome.kind = "return" THEN "returned" ELSE "raised"]
    /\ UNCHANGED <<MCP_API_KEY, active_tasks, nextId, kwargs, bg, runs, loop, issued,
                   notified, prior, reply>>

\* Lines 165-166, 186-187, 209-210, 223-224: "completed" and the result.
RunComplete(t) ==
    /\ loop = t
    /\ pc[t] = "returned"
    /\ active_tasks' = [active_tasks EXCEPT ![t] = Completed(@, local[t].value)]
    /\ pc' = [pc EXCEPT ![t] = "done"]
    /\ bg' = [bg EXCEPT ![t] = Tail(@)]
    /\ loop' = 0
    /\ UNCHANGED <<MCP_API_KEY, nextId, kwargs, local, attempt, runs, issued,
                   notified, prior, reply>>

\* Lines 229-232: the except clause writes "failed" and str(e).
RunFail(t) ==
    /\ loop = t
    /\ pc[t] = "raised"
    /\ active_tasks' = [active_tasks EXCEPT ![t] = Failed(@, local[t].msg)]
    /\ pc' = [pc EXCEPT ![t] = "done"]
    /\ bg' = [bg EXCEPT ![t] = Tail(@)]
    /\ loop' = 0
    /\ UNCHANGED <<MCP_API_KEY, nextId, kwargs, local, attempt, runs, issued,
                   notified, prior, reply>>

run_task(t) == RunBegin(t) \/ RunInvoke(t) \/ RunComplete(t) \/ RunFail(t)

\* ---------------------------------------------------------- notify_mcp
\* What becomes of the POST to the MCP server: a 2xx answer, no connection,
\* no answer within the 10 s timeout, an answer raise_for_status rejects.
PostOutcomes == {"ok", "unreachable", "timeout", "http_error"}

\* A notify_mcp without its except clause.
notify_result_Raising(post) ==
    IF post = "ok" THEN [kind |-> "return", success |-> TRUE]
    ELSE [kind |-> "raise", success |-> FALSE]

\* How notify_mcp ends: it returns response.json(), or the except clause
\* logs the error and returns {"success": False, "error": str(e)}.
notify_result(post) ==
    IF post = "ok" THEN [kind |-> "return", success |-> TRUE]
    ELSE [kind |-> "return", success |-> FALSE]

\* The second background job.  No task record is touched.
notify_mcp(t) ==
    /\ loop = 0
    /\ t \in DOMAIN bg
    /\ bg[t] # <<>> /\ Head(bg[t]) = "notify_mcp"
    /\ bg' = [bg EXCEPT ![t] = Tail(@)]
    /\ \E post \in PostOutcomes :
          notified' = [notified EXCEPT ![t] = notify_result(post)]
    /\ UNCHANGED <<MCP_API_KEY, active_tasks, nextId, kwargs, pc, local, attempt,
                   runs, loop, issued, prior, reply>>

\* ------------------------------------------------------- status lookup
\* A lookup that answers with the status the task was created with.
Lookup_Stale(tasks, task_id) ==
    IF task_id \notin DOMAIN tasks
    THEN Reply("task_status", 404, task_id, "-", None, None)
    ELSE Reply("task_status", 200, task_id, "queued",
               tasks[task_id].result, tasks[task_id].error)

\* The body of get_task_status for a request that passed validate_api_key.
Lookup(tasks, task_id) ==
    IF task_id \notin DOMAIN tasks
    THEN Reply("task_status", 404, task_id, "-", None, None)
    ELSE Reply("task_status", 200, task_id, tasks[task_id].status,
               tasks[task_id].result, tasks[task_id].error)

get_task_status ==
    /\ loop = 0
    /\ \E x_api_key \in Headers :
          IF validate_api_key(x_api_key)
          THEN \E task_id \in 1..(MaxTasks + 1) : reply' = Lookup(active_tasks, task_id)
          ELSE reply' = InvalidApiKey
    /\ UNCHANGED <<MCP_API_KEY, loop, tables>>

\* ------------------------------------------------------ root and health
\* GET /: behind validate_api_key.
root ==
    /\ loop = 0
    /\ \E x_api_key \in Headers :
          reply' = IF validate_api_key(x_api_key)
                   THEN Reply("root", 200, 0, "-", None, None)
                   ELSE InvalidApiKey
    /\ UNCHANGED <<MCP_API_KEY, loop, tables>>

\* GET /health: no dependency, the header is not looked at.
health_check ==
    /\ loop = 0
    /\ reply' = Reply("health", 200, 0, "ok", None, None)
    /\ UNCHANGED <<MCP_API_KEY, loop, tables>>

\* ----------------------------------------- task list, embed and webhook
\* GET /tasks: behind validate_api_key.  The body of the answer, the table
\* as it stands, is not kept in reply.
get_tasks ==
    /\ loop = 0
    /\ \E x_api_key \in Headers :
          reply' = IF validate_api_key(x_api_key)
                   THEN Reply("tasks", 200, 0, "-", None, None)
                   ELSE InvalidApiKey
    /\ UNCHANGED <<MCP_API_KEY, loop, tables>>

\* What becomes of embed_query: the embedding, or an exception (a 500).
EmbedOutcomes == {"ok", "error"}

\* POST /llm/embed: answers in the handler, creates no task.
llm_embed ==
    /\ loop = 0
    /\ \E x_api_key \in Headers :
          IF validate_api_key(x_api_key)
          THEN \E ext \in EmbedOutcomes :
                  reply' = Reply("llm_embed", IF ext = "ok" THEN 200 ELSE 500,
                                 0, "-", None, None)
          ELSE reply' = InvalidApiKey
    /\ UNCHANGED <<MCP_API_KEY, loop, tables>>

\* An event type the webhook has a branch for, and one it has none for.
WebhookEvents == {"game_server_status_changed", "other"}

\* POST /webhook: every branch only logs; the answer is {"status": "ok"}.
mcp_webhook ==
    /\ loop = 0
    /\ \E x_api_key \in Headers :
          IF validate_api_key(x_api_key)
          THEN \E event_type \in WebhookEvents :
                  reply' = Reply("webhook", 200, 0, "ok", None, None)
          ELSE reply' = InvalidApiKey
    /\ UNCHANGED <<MCP_API_KEY, loop, tables>>

\* ------------------------------------------------------------ the spec
Next ==
    \/ llm_generate
    \/ deploy_game_server_endpoint
    \/ game_server_action
    \/ infrastructure_action
    \/ \E t \in TaskIds : RunBegin(t)
    \/ \E t \in TaskIds : RunInvoke(t)
    \/ \E t \in TaskIds : RunComplete(t)
    \/ \E t \in TaskIds : RunFail(t)
    \/ \E t \in TaskIds : notify_mcp(t)
    \/ get_task_status
    \/ root
    \/ health_check
    \/ get_tasks
    \/ llm_embed
    \/ mcp_webhook

Spec == Init /\ [][Next]_vars

\* The event loop runs every background job that is ready.
FairSpec == Spec /\ \A t \in TaskIds : WF_vars(run_task(t))

\* ------------------------------------------------------------ helpers
Terminal == {"completed", "failed"}

Ids == DOMAIN active_tasks

StatusOf(t) == active_tasks[t].status

\* The status changes of the life cycle queued -> running -> {completed, failed}.
LifeCycle ==
    {<<"queued", "running">>, <<"running", "completed">>, <<"running", "failed">>}

\* The call of a task ended in an error: an exception, or a returned dict
\* whose status is "error".
ErrorOutcome(o) ==
    \/ o.kind = "raise"
    \/ o.kind = "return" /\ "status" \in DOMAIN o.value /\ o.value.status = "error"

\* ---------------------------------------------------------------- C1
\* C1: in every step, every task already in the table stays in the table and
\* either keeps its status or moves along queued -> running, running ->
\* completed or running -> failed; a task that enters the table enters queued.
C1_OnlyLifeCycleSteps ==
    [][ /\ \A t \in Ids :
            /\ t \in DOMAIN active_tasks'
            /\ \/ active_tasks'[t].status = StatusOf(t)
               \/ <<StatusOf(t), active_tasks'[t].status>> \in LifeCycle
        /\ \A t \in DOMAIN active_tasks' \ Ids : active_tasks'[t].status = "queued"
      ]_vars

\* Both terminal states have been reached, each through running.
C1_Witness ==
    \E t, u \in Ids :
        /\ StatusOf(t) = "completed" /\ StatusOf(u) = "failed"
        /\ runs[t] = 1 /\ runs[u] = 1

\* ---------------------------------------------------------------- C2
\* C2: a completed task has a result and no error, a failed task has an error
\* and no result, a queued or running task has neither; the same holds of
\* every answer of the status lookup.
C2_ResultErrorMatchStatus ==
    /\ \A t \in Ids :
          LET r == active_tasks[t] IN
          /\ r.status = "completed" => r.result # None /\ r.error = None
          /\ r.status = "failed" => r.error # None /\ r.result = None
          /\ r.status \in {"queued", "running"} => r.result = None /\ r.error = None
    /\ (reply.op = "task_status" /\ reply.code = 200) =>
          /\ reply.status = "completed" => reply.result # None /\ reply.error = None
          /\ reply.status = "failed" => reply.error # None /\ reply.result = None
          /\ reply.status \in {"queued", "running"} =>
                reply.result = None /\ reply.error = None

\* A lookup answered "failed" while another task of the table is completed.
C2_Witness ==
    /\ reply.op = "task_status" /\ reply.code = 200 /\ reply.status = "failed"
    /\ \E t \in Ids : StatusOf(t) = "completed"

\* ---------------------------------------------------------------- C3
\* C3: under FairSpec, every task in the table is eventually completed or
\* failed.
C3_EventuallyTerminal ==
    \A t \in TaskIds :
        (t \in Ids) ~> (t \in Ids /\ StatusOf(t) \in Terminal)

\* Every task of a full table is terminal: one whose call raised, one whose
\* call returned.
C3_Witness ==
    /\ Cardinality(Ids) >= 2
    /\ \A t \in Ids : StatusOf(t) \in Terminal
    /\ \E t, u \in Ids : local[t].kind = "raise" /\ local[u].kind = "return"

\* ---------------------------------------------------------------- C5
\* C5: no task is run more than once, and a task has left queued exactly when
\* its one run has started.
C5_RunsOnce ==
    \A t \in Ids :
        /\ runs[t] <= 1
        /\ (StatusOf(t) # "queued") <=> (runs[t] = 1)

\* Two tasks were queued together and each has been run once.
C5_Witness ==
    /\ Cardinality(Ids) >= 2
    /\ \A t \in Ids : runs[t] = 1 /\ pc[t] = "done"

C7_ErrorOutcomeFails ==
    \A t \in Ids :
        (pc[t] = "done" /\ attempt[t] >= 1 /\ ErrorOutcome(local[t])) =>
            /\ StatusOf(t) = "failed"
            /\ active_tasks[t].error # None
            /\ attempt[t] = 1

\* ---------------------------------------------------------------- C8
\* C8: no deployment with a port outside 1..65535 is ever in the task table
\* or has a background run scheduled.
C8_PortOutOfRangeRejected ==
    \A t \in DOMAIN kwargs :
        kwargs[t].task_type = "game_server_deploy" => kwargs[t].port \in 1..65535

\* ---------------------------------------------------------------- C9
\* C9: a step that answers a submission returns an id that was never returned
\* before and was not in the table, leaves that id in the table as a queued
\* record with no run started, and answers 200 with the id and status queued.
C9_FreshQueuedId ==
    [][ (issued' # issued \/ nextId' # nextId) =>
          /\ Len(issued') = Len(issued) + 1
          /\ LET id == issued'[Len(issued')] IN
             /\ \A i \in 1..Len(issued) : issued[i] # id /\ issued'[i] = issued[i]
             /\ id \notin Ids
             /\ id \in DOMAIN active_tasks'
             /\ active_tasks'[id] = [status |-> "queued", result |-> None, error |-> None]
             /\ runs'[id] = 0
             /\ reply'.code = 200 /\ reply'.task_id = id /\ reply'.status = "queued"
      ]_vars

\* The second submission was answered while the first task had already run.
C9_Witness ==
    /\ Len(issued) >= 2
    /\ reply.op = "infrastructure_action" /\ reply.code = 200
    /\ reply.task_id = issued[Len(issued)]
    /\ StatusOf(reply.task_id) = "queued"
    /\ \E t \in Ids : StatusOf(t) \in Terminal

\* --------------------------------------------------------------- C10
\* C10: no step removes a task from the table; an authenticated status lookup
\* changes no table, answers 200 with the current status, result and error of
\* the task when the id was returned by a submission, and 404 otherwise.
C10_LookupOfIssuedIds ==
    [][ /\ Ids \subseteq DOMAIN active_tasks'
        /\ \A i \in 1..Len(issued) : issued[i] \in Ids
        /\ (reply' # reply /\ reply'.op = "task_status" /\ reply'.code # 401) =>
              /\ UNCHANGED tables
              /\ IF \E i \in 1..Len(issued) : issued[i] = reply'.task_id
                 THEN /\ reply'.code = 200
                      /\ reply'.status = StatusOf(reply'.task_id)
                      /\ reply'.result = active_tasks[reply'.task_id].result
                      /\ reply'.error = active_tasks[reply'.task_id].error
                 ELSE reply'.code = 404
      ]_vars

\* A lookup of a task that has run answered 200 with its terminal status,
\* while another task of the table is still queued.
C10_Witness ==
    /\ reply.op = "task_status" /\ reply.code = 200
    /\ reply.task_id \in Ids
    /\ reply.status = "completed" /\ StatusOf(reply.task_id) = "completed"
    /\ \E t \in Ids : StatusOf(t) = "queued"

\* A lookup of an id no submission returned answered 404 while the table
\* holds a completed task.
C10_WitnessNotFound ==
    /\ reply.op = "task_status" /\ reply.code = 404
    /\ reply.task_id \notin Ids
    /\ \E t \in Ids : StatusOf(t) = "completed"

\* --------------------------------------------------------------- C11
\* C11: a step in which the notification of a task ends, whatever became of
\* the POST, leaves every task record as it was, and the notification ends
\* by returning, never by raising.
C11_NotificationLeavesTasks ==
    [][ (\E t \in DOMAIN notified : notified'[t] # notified[t]) =>
          /\ active_tasks' = active_tasks
          /\ \A t \in DOMAIN notified' : notified'[t].kind # "raise"
      ]_vars

\* One notification failed and one succeeded, for tasks that ended
\* completed and failed.
C11_Witness ==
    \E t, u \in Ids :
        /\ notified[t].kind = "return" /\ ~ notified[t].success
        /\ notified[u].kind = "return" /\ notified[u].success
        /\ StatusOf(t) = "completed" /\ StatusOf(u) = "failed"

IsDeploy(t) == kwargs[t].task_type = "game_server_deploy"

\* The result of task t is the descriptor of a deployed server.
HasDescriptor(t) ==
    /\ StatusOf(t) = "completed"
    /\ {"status", "server_id", "connection_info"} \subseteq DOMAIN active_tasks[t].result
    /\ active_tasks[t].result.status = "success"

\* The servers the completed deployments describe.
Resources == {active_tasks[t].result.server_id : t \in {u \in Ids : IsDeploy(u) /\ HasDescriptor(u)}}

\* C13: two finished deployments with the same server name and the same
\* parameters are both completed with the same descriptor of one server.
C13_IdenticalDeploysOneResource ==
    \A t, u \in Ids :
        (t # u /\ IsDeploy(t) /\ kwargs[t] = kwargs[u] /\ pc[t] = "done" /\ pc[u] = "done") =>
            /\ HasDescriptor(t) /\ HasDescriptor(u)
            /\ active_tasks[t].result = active_tasks[u].result
            /\ Cardinality(Resources) = 1

\* --------------------------------------------------------------- C14
\* C14: a finished deployment, submitted when a deployment of the same server
\* name with another port or game type had completed, is failed.
C14_DivergentDeployFails ==
    \A u \in Ids : \A t \in prior[u] :
        ( /\ IsDeploy(t) /\ IsDeploy(u) /\ HasDescriptor(t)
          /\ kwargs[t].server_name = kwargs[u].server_name
          /\ \/ kwargs[t].port # kwargs[u].port
             \/ kwargs[t].game_type # kwargs[u].game_type
          /\ pc[u] = "done" ) =>
            StatusOf(u) = "failed" /\ active_tasks[u].error # None

\* --------------------------------------------------------------- C15
IsAction(t, a) == kwargs[t].task_type = "game_server_action" /\ kwargs[t].action = a

\* C15: the stop step of a restart fails, and then the restart has made no
\* deploy call, ends failed, and no task has entered the table but those the
\* submissions returned.
C15_NoStartAfterFailedStop ==
    /\ \A t \in Ids :
          (IsAction(t, "restart") /\ pc[t] \in {"raised", "done"}) =>
              /\ local[t].kind = "raise"
              /\ attempt[t] = 0
              /\ pc[t] = "done" => StatusOf(t) = "failed" /\ active_tasks[t].error # None
    /\ Ids = {issued[i] : i \in 1..Len(issued)}

\* A restart has ended failed and is the only task of the table.
C15_Witness ==
    \E t \in Ids :
        /\ IsAction(t, "restart") /\ pc[t] = "done" /\ StatusOf(t) = "failed"
        /\ Ids = {t}

\* --------------------------------------------------------------- C16
\* C16: a finished stop of a server that was never deployed is completed.
C16_StopIsNoOpSuccess ==
    \A t \in Ids :
        (IsAction(t, "stop") /\ pc[t] = "done") => StatusOf(t) = "completed"

\* --------------------------------------------------------------- C17
\* C17: a finished start is completed with the descriptor of the server, as
\* a deployment of that server is.
C17_StartIsDeploy ==
    \A t \in Ids :
        (IsAction(t, "start") /\ pc[t] = "done") => HasDescriptor(t)

\* --------------------------------------------------------------- C18
\* The deployment of the example: a minecraft server on a port in range.
ExampleDeploy(kw) ==
    /\ kw.task_type = "game_server_deploy"
    /\ Lower(kw.game_type) = "minecraft"
    /\ kw.port \in 1..65535

C19_ConfiguredKeyAccepted ==
    /\ validate_api_key(MCP_API_KEY)
    /\ reply.op = "health" => reply.code = 200

\* --------------------------------------------------------------- C20
\* C20: a finished deployment of a supported game type whose request has no
\* additional_settings is completed with a success result.
C20_SettingsOptional ==
    \A t \in Ids :
        ( /\ IsDeploy(t) /\ Lower(kwargs[t].game_type) \in {"minecraft", "cs2", "valheim"}
          /\ kwargs[t].additional_settings = None
          /\ pc[t] = "done" ) =>
            HasDescriptor(t)

\* --------------------------------------------------------------- C21
\* C21: every host port in the configuration of a completed deployment lies
\* in 1..65535.
C21_HostPortsInRange ==
    \A t \in Ids :
        (IsDeploy(t) /\ HasDescriptor(t)) =>
            active_tasks[t].result.ports \subseteq 1..65535

\* --------------------------------------------------------------- C22
\* The actions and the task types run_task has a branch for.
KnownActions == {"start", "stop", "restart", "status"}

KnownTaskTypes ==
    {"llm_generate", "game_server_deploy", "game_server_action", "infrastructure_action"}

\* Keyword arguments of a run whose task type run_task has no branch for.
UnknownTypeKwargs == {Kwargs("llm_embed", "-", "-", 0, None, "-")}

\* The record run_task leaves when its call produced outcome o.
RecordAfter(o) ==
    IF o.kind = "return"
    THEN Completed(Running(QueuedRecord), o.value)
    ELSE Failed(Running(QueuedRecord), o.msg)

\* C22: a finished game-server action task is completed with a result of
\* status "unknown" when its action is "status", and failed with a
\* ValueError naming the action when its action is none of start, stop,
\* restart, status; a run of an unknown task type leaves a failed record
\* whose error names the type; no finished task is running.
C22_StatusAndUnknownValues ==
    /\ \A t \in Ids :
          /\ (IsAction(t, "status") /\ pc[t] = "done") =>
                /\ StatusOf(t) = "completed"
                /\ active_tasks[t].result.status = "unknown"
          /\ (kwargs[t].task_type = "game_server_action"
                /\ kwargs[t].action \notin KnownActions /\ pc[t] = "done") =>
                /\ StatusOf(t) = "failed"
                /\ local[t].exc = "ValueError"
                /\ active_tasks[t].error = [str |-> "Unknown action", names |-> kwargs[t].action]
          /\ pc[t] = "done" => StatusOf(t) # "running"
    /\ \A kw \in UnknownTypeKwargs :
          /\ kw.task_type \notin KnownTaskTypes
          /\ RecordAfter(Dispatch(kw, "ok")) =
                [status |-> "failed", result |-> None,
                 error |-> [str |-> "Unknown task type", names |-> kw.task_type]]

\* A "status" action has ended completed and a "pause" action has ended
\* failed.
C22_Witness ==
    \E t, u \in Ids :
        /\ IsAction(t, "status") /\ pc[t] = "done" /\ StatusOf(t) = "completed"
        /\ IsAction(u, "pause") /\ pc[u] = "done" /\ StatusOf(u) = "failed"

\* --------------------------------------------------------------- C23
\* The tasks whose record says running.
RunningTasks == {t \in Ids : StatusOf(t) = "running"}

\* C23: at most one task is running, it is the task whose run occupies the
\* event loop, and no answer of the status lookup says running.
C23_OneRunningNeverObserved ==
    /\ Cardinality(RunningTasks) <= 1
    /\ \A t \in RunningTasks : loop = t
    /\ loop = 0 => RunningTasks = {}
    /\ reply.op = "task_status" => reply.status # "running"

\* A task is running, between its call and its terminal write, while another
\* task waits queued with its run ready; the last lookup of the running task
\* was answered queued.
C23_Witness ==
    \E t, u \in Ids :
        /\ t # u
        /\ StatusOf(t) = "running" /\ pc[t] = "returned"
        /\ StatusOf(u) = "queued" /\ Head(bg[u]) = "run_task"
        /\ reply.op = "task_status" /\ reply.task_id = t /\ reply.status = "queued"

\* --------------------------------------------------------------- C24
\* The part of a table that belongs to the tasks of T.
Restrict(d, T) == [t \in T |-> d[t]]

\* C24: a step changes the task table only when it is a submission that
\* passed validate_api_key, which adds exactly one queued record under the
\* id it answers with, or a step of the run of one task, which changes the
\* record of that task alone; every other step (a 401, root, health, task
\* list, status lookup, embed, webhook, notify_mcp) leaves the table as it
\* was.
C24_TableChangedOnlyBySubmitAndRun ==
    [][ active_tasks' # active_tasks =>
          \/ /\ nextId' = nextId + 1
             /\ MCP_API_KEY # ""
             /\ reply'.code = 200 /\ reply'.task_id \notin Ids
             /\ DOMAIN active_tasks' = Ids \cup {reply'.task_id}
             /\ Restrict(active_tasks', Ids) = active_tasks
          \/ /\ nextId' = nextId
             /\ DOMAIN active_tasks' = Ids
             /\ \E t \in Ids :
                   /\ pc'[t] # pc[t]
                   /\ loop = t \/ loop' = t
                   /\ \A u \in Ids \ {t} : active_tasks'[u] = active_tasks[u]
      ]_vars

\* Requests were rejected with 401 after one task was completed and notified
\* and while the other is queued.
C24_Witness ==
    /\ reply = InvalidApiKey
    /\ \E t, u \in Ids :
          /\ StatusOf(t) = "completed" /\ notified[t].kind = "return"
          /\ StatusOf(u) = "queued"

====
